---- MODULE Spec2Model ----
(***************************************************************************)
(* Model of sensors_poll_context_t (sensors/STML0XX_MAG/sensors_p_c.cpp):  *)
(* the poll context that multiplexes the hub source (HubSensor) and the    *)
(* fusion source (AkmSensor) plus the wake pipe.                           *)
(*                                                                         *)
(* Two threads use the context: the collect thread runs pollEvents, the    *)
(* control thread runs activate / setDelay / batch / flush.  pollEvents    *)
(* blocks in poll(2) and loops, so it is modelled step by step (pc); a     *)
(* control operation is one atomic action.  The sources (HubSensor,        *)
(* AkmSensor) and the kernel (poll, pipe) are the environment: their       *)
(* results are nondeterministic inputs of the actions.                     *)
(*                                                                         *)
(* Spec is the whole program.  The two threads share only the wake pipe,   *)
(* so the claims are checked under SpecControl (the control thread),       *)
(* SpecCollect (the collect thread, the sources and the wake write),       *)
(* FairCollect (SpecCollect with the collect thread's fairness), SpecBoth  *)
(* (pollEvents interleaved with one call of each control operation) and    *)
(* SpecPartial (the context after the allocation of one source failed).    *)
(***************************************************************************)
EXTENDS Integers, Sequences, FiniteSets

(***************************************************************************)
(* Bounds of the model                                                     *)
(***************************************************************************)
\* largest count a caller passes to pollEvents
MaxCount == 2
\* most records one source holds at a time (descriptor queue + own buffer)
MaxRec == 2
\* most EINTR failures of poll() within one pollEvents call
MaxEintr == 1
\* capacity of the wake pipe in bytes (the kernel's is 65536)
PipeCap == 2

(***************************************************************************)
(* Program constants                                                       *)
(***************************************************************************)
accelgyromag == 0
akm == 1
numSensorDrivers == 2
numFds == 3
wake == numFds - 1
POLLIN == 1
EINTR == 4
ENOMEM == 12
EINVAL == 22

ID_M == "ID_M"
HubHandles == {"ID_A", "ID_L", "ID_DR", "ID_P", "ID_FU", "ID_FD", "ID_S", "ID_CA", "ID_A2"}
\* handles the switch of handleToDriver has no case for
OtherHandles == {"ID_OTHER", "ID_NONE"}
Handles == HubHandles \cup {ID_M} \cup OtherHandles

Drivers == 0 .. (numSensorDrivers - 1)
Fds == 0 .. (numFds - 1)

\* inputs of the control operations
EnabledValues == {0, 1}
NsValues == {1, 2}
FlagValues == {0, 1}
TimeoutValues == {0, 3}
\* results a source's setEnable / setDelay / flush delegate may return
DriverRets == {0, -EINVAL}
\* errno values poll() may fail with, and those that end pollEvents
PollErrnos == {EINTR, ENOMEM, EINVAL}
FatalErrnos == PollErrnos \ {EINTR}

Min(a, b) == IF a < b THEN a ELSE b

VARIABLES
    mSensors,    \* mSensors[i]: "live" or "null" (new(std::nothrow) failed)
    mPollFds,    \* mPollFds[i]: [fd, events, revents]
    pipe,        \* bytes pending in the wake pipe
    kq,          \* kq[i]: records readable on source i's descriptor
    pend,        \* pend[i]: records buffered inside source i (hasPendingEvents)
    akmEnabled,  \* the fusion source's enabled state for ID_M
    pc,          \* collect thread: "idle", "poll" (about to call poll()), "blocked"
                 \* (asleep inside poll()), "drain"; or "crashed" (the process)
    count0,      \* count as passed to the current / last pollEvents
    count,       \* local count (remaining capacity)
    nbEvents,    \* local nbEvents
    data,        \* local data, as an offset into the caller's buffer
    i,           \* loop variable of the drain loop
    out,         \* caller's buffer: out[p] = source of the record at p, or -1
    ret,         \* value returned by the last pollEvents
    waits,       \* poll() calls made in the current / last pollEvents
    eintrs,      \* of these, the ones that failed with EINTR
    lastWait,    \* outcome of the latest poll(): "none", "ok", "eintr", "fail"
    hp,          \* sources whose hasPendingEvents was called, in call order
    reads,       \* readEvents calls of this pollEvents: [src, cap, nb, at]
    wakeReads,   \* bytes read from the wake pipe in this pollEvents
    srcReady,    \* some source held a record at some point of this pollEvents
    woken,       \* activate wrote the wake byte while this pollEvents was blocked
    lastOp       \* the latest control operation, its delegate calls and result

pollVars == <<pc, count0, count, nbEvents, data, i, out, ret, waits, eintrs,
              lastWait, hp, reads, wakeReads, srcReady>>
srcVars == <<kq, pend>>
vars == <<mSensors, mPollFds, pipe, kq, pend, akmEnabled, pc, count0, count,
          nbEvents, data, i, out, ret, waits, eintrs, lastWait, hp, reads,
          wakeReads, srcReady, woken, lastOp>>

(***************************************************************************)
(* Construction                                                            *)
(***************************************************************************)
BufSlots == 0 .. (2 * MaxCount - 1)
EmptyBuf == [p \in BufSlots |-> -1]
SensorFd(d) == IF d = accelgyromag THEN "hubFd" ELSE "akmFd"
NoOp == [op |-> "none", handle |-> "none", arg |-> 0, ret |-> 0, calls |-> <<>>,
         wattempts |-> 0, wrote |-> 0, wasOn |-> FALSE]

\* mPollFds as the constructor leaves it when the sources in `live` were built
PollFdsAfterCtor(sens) ==
    [f \in Fds |->
        IF f = wake THEN [fd |-> "wakeRd", events |-> POLLIN, revents |-> 0]
        ELSE IF sens[f] = "live"
             THEN [fd |-> SensorFd(f), events |-> POLLIN, revents |-> 0]
             ELSE [fd |-> "uninit", events |-> 0, revents |-> 0]]

\* the state the constructor leaves, given the sources and the wait set
InitFrom(sens, fds) ==
    /\ mSensors = sens
    /\ mPollFds = fds
    /\ pipe = 0
    /\ kq = [d \in Drivers |-> 0]
    /\ pend = [d \in Drivers |-> 0]
    /\ akmEnabled = FALSE
    /\ pc = "idle"
    /\ count0 = 0
    /\ count = 0
    /\ nbEvents = 0
    /\ data = 0
    /\ i = 0
    /\ out = EmptyBuf
    /\ ret = 0
    /\ waits = 0
    /\ eintrs = 0
    /\ lastWait = "none"
    /\ hp = <<>>
    /\ reads = <<>>
    /\ wakeReads = 0
    /\ srcReady = FALSE
    /\ woken = FALSE
    /\ lastOp = NoOp

InitWith(sens) == InitFrom(sens, PollFdsAfterCtor(sens))

\* both sources were constructed
Init == InitWith([d \in Drivers |-> "live"])

\* new(std::nothrow) failed for source d: mSensors[d] is null and the
\* constructor never writes mPollFds[d], whose events and revents hold
\* whatever the allocation held
InitPartial ==
    \E d \in Drivers, ev \in {0, POLLIN}, rv \in {0, POLLIN} :
        LET sens == [x \in Drivers |-> IF x = d THEN "null" ELSE "live"] IN
        InitFrom(sens, [PollFdsAfterCtor(sens) EXCEPT ![d].events = ev,
                                                      ![d].revents = rv])

(***************************************************************************)
(* Dispatch table                                                          *)
(***************************************************************************)
\* a switch that sends every handle without a case of its own to the hub
handleToDriver_DefaultHub(handle) ==
    IF handle = ID_M THEN akm ELSE accelgyromag

\* a switch whose ID_M case falls through to the hub
handleToDriver_AllHub(handle) ==
    IF handle \in HubHandles \cup {ID_M} THEN accelgyromag ELSE -EINVAL

handleToDriver(handle) ==
    IF handle \in HubHandles THEN accelgyromag
    ELSE IF handle = ID_M THEN akm
    ELSE -EINVAL

(***************************************************************************)
(* Control operations (control thread)                                     *)
(***************************************************************************)
\* one call through mSensors[drv]: the delegate, its arguments, its result
Delegate(drv, fn, handle, arg, r) ==
    [drv |-> drv, fn |-> fn, handle |-> handle, arg |-> arg, ret |-> r]

\* a call through a null mSensors slot ends the process
Crash(op, handle, arg) ==
    /\ pc' = "crashed"
    /\ lastOp' = [op |-> op, handle |-> handle, arg |-> arg, ret |-> 0,
                  calls |-> <<>>, wattempts |-> 0, wrote |-> 0, wasOn |-> akmEnabled]
    /\ UNCHANGED <<mSensors, mPollFds, pipe, kq, pend, akmEnabled, count0, count,
                   nbEvents, data, i, out, ret, waits, eintrs, lastWait, hp,
                   reads, wakeReads, srcReady, woken>>

\* the fusion source's enabled state after setEnable(handle, enabled) returned r
EnabledAfter(drv, handle, enabled, r) ==
    IF drv = akm /\ handle = ID_M /\ r = 0 THEN enabled # 0 ELSE akmEnabled

\* the wake byte is sent when any sensor is enabled
WakeOnActivate_AnyHandle(handle, enabled, err) ==
    (enabled # 0) /\ (err = 0)

\* the wake byte is sent whatever setEnable returned
WakeOnActivate_IgnoreErr(handle, enabled, err) ==
    (handle = ID_M) /\ (enabled # 0)

\* the condition under which activate writes the wake byte
WakeOnActivate(handle, enabled, err) ==
    (handle = ID_M) /\ (enabled # 0) /\ (err = 0)

\* write(mWritePipeFd, &wakeMessage, 1) on the non-blocking pipe: bytes written
WriteWake(bytes) == IF bytes < PipeCap THEN 1 ELSE 0

\* pollEvents sits in poll() with no descriptor readable and no source holding
\* buffered records
Blocked ==
    /\ pc = "blocked"
    /\ pipe = 0
    /\ \A d \in Drivers : kq[d] = 0 /\ pend[d] = 0

\* a control operation that marks the wake slot readable by itself
WaitSetAfterControl_MarksWake(fds) == [fds EXCEPT ![wake].revents = POLLIN]

\* mPollFds after a control operation: none of them assigns to it
WaitSetAfterControl(fds) == fds

\* an activate that reports the failure of its wake write
ActivateReturn_WriteError(err, result) == IF result < 0 THEN result ELSE err

\* return err: the result of write() is only logged
ActivateReturn(err, result) == err

Activate(handle, enabled, r) ==
    LET drv == handleToDriver(handle) IN
    /\ pc # "crashed"
    /\ IF drv < 0
       THEN /\ lastOp' = [op |-> "activate", handle |-> handle, arg |-> enabled,
                          ret |-> -EINVAL, calls |-> <<>>, wattempts |-> 0,
                          wrote |-> 0, wasOn |-> akmEnabled]
            /\ UNCHANGED <<mSensors, mPollFds, pipe, srcVars, akmEnabled, pollVars, woken>>
       ELSE IF mSensors[drv] = "null"
       THEN Crash("activate", handle, enabled)
       ELSE LET err == r
                w == WakeOnActivate(handle, enabled, err)
                n == IF w THEN WriteWake(pipe) ELSE 0
            IN  /\ akmEnabled' = EnabledAfter(drv, handle, enabled, r)
                /\ pipe' = pipe + n
                /\ lastOp' = [op |-> "activate", handle |-> handle, arg |-> enabled,
                              ret |-> ActivateReturn(err, IF w /\ n = 0 THEN -1 ELSE n),
                              calls |-> <<Delegate(drv, "setEnable", handle, enabled, r)>>,
                              wattempts |-> IF w THEN 1 ELSE 0,
                              wrote |-> n, wasOn |-> akmEnabled]
                /\ woken' = (woken \/ (n = 1 /\ Blocked))
                /\ mPollFds' = WaitSetAfterControl(mPollFds)
                /\ UNCHANGED <<mSensors, srcVars, pollVars>>

\* setDelay's outcome: its return value and the delegate calls it makes
SetDelayResult(handle, ns, r) ==
    LET drv == handleToDriver(handle) IN
    IF drv < 0
    THEN [ret |-> -EINVAL, calls |-> <<>>, null |-> FALSE]
    ELSE IF mSensors[drv] = "null"
    THEN [ret |-> 0, calls |-> <<>>, null |-> TRUE]
    ELSE [ret |-> r, calls |-> <<Delegate(drv, "setDelay", handle, ns, r)>>,
          null |-> FALSE]

\* what a control operation that only delegates leaves behind
Delegated(op, handle, arg, res) ==
    IF res.null
    THEN Crash(op, handle, arg)
    ELSE /\ lastOp' = [op |-> op, handle |-> handle, arg |-> arg, ret |-> res.ret,
                       calls |-> res.calls, wattempts |-> 0, wrote |-> 0,
                       wasOn |-> akmEnabled]
         /\ mPollFds' = WaitSetAfterControl(mPollFds)
         /\ UNCHANGED <<mSensors, pipe, srcVars, akmEnabled, pollVars, woken>>

SetDelay(handle, ns, r) ==
    /\ pc # "crashed"
    /\ Delegated("setDelay", handle, ns, SetDelayResult(handle, ns, r))

\* a batch that takes the report latency for the sampling period when one is given
BatchResult_UsesTimeout(handle, flags, ns, timeout, r) ==
    SetDelayResult(handle, IF timeout > 0 THEN timeout ELSE ns, r)

\* batch's outcome: that of the setDelay call it makes
BatchResult(handle, flags, ns, timeout, r) ==
    SetDelayResult(handle, ns, r)

Batch(handle, flags, ns, timeout, r) ==
    /\ pc # "crashed"
    /\ Delegated("batch", handle, ns, BatchResult(handle, flags, ns, timeout, r))

\* a flush routed like the other control operations
FlushDriver_ByHandle(handle) == handleToDriver(handle)

\* the source flush calls through
FlushDriver(handle) == accelgyromag

Flush(handle, r) ==
    LET drv == FlushDriver(handle) IN
    /\ pc # "crashed"
    /\ Delegated("flush", handle, 0,
                 IF drv < 0 \/ mSensors[drv] = "null"
                 THEN [ret |-> 0, calls |-> <<>>, null |-> TRUE]
                 ELSE [ret |-> r, calls |-> <<Delegate(drv, "flush", handle, 0, r)>>,
                       null |-> FALSE])

(***************************************************************************)
(* The sources and the kernel (environment)                                *)
(***************************************************************************)
\* whether poll() finds descriptor f readable
Readable(f) ==
    IF f = wake THEN pipe > 0 ELSE kq[f] > 0

\* the revents poll() may store: POLLIN exactly for the readable descriptors;
\* anything for a slot the constructor left uninitialised
ReventsOutcomes ==
    {rv \in [Fds -> {0, POLLIN}] :
        \A f \in Fds :
            (f = wake \/ mSensors[f] = "live")
                => (rv[f] = IF Readable(f) THEN POLLIN ELSE 0)}

\* sensor->hasPendingEvents()
hasPendingEvents(d) == pend[d] > 0

\* sensor->readEvents(data, cap): the source moves `pull` records from its
\* descriptor into its buffer and hands out `nb` of the buffered ones
ReadOutcomes(d, cap) ==
    {o \in [pull : 0 .. kq[d], nb : 0 .. MaxRec] :
        o.nb <= Min(IF cap > 0 THEN cap ELSE 0, pend[d] + o.pull)}

\* a record arrives on source d's descriptor
Arrive(d) ==
    /\ pc # "crashed"
    /\ mSensors[d] = "live"
    /\ kq[d] + pend[d] < MaxRec
    /\ kq' = [kq EXCEPT ![d] = @ + 1]
    /\ srcReady' = (srcReady \/ pc \in {"poll", "blocked", "drain"})
    /\ UNCHANGED <<mSensors, mPollFds, pipe, pend, akmEnabled, pc, count0, count,
                   nbEvents, data, i, out, ret, waits, eintrs, lastWait, hp,
                   reads, wakeReads, woken, lastOp>>

(***************************************************************************)
(* pollEvents (collect thread)                                             *)
(***************************************************************************)
PollCall(c) ==
    /\ pc = "idle"
    /\ pc' = "poll"
    /\ count0' = c
    /\ count' = c
    /\ nbEvents' = 0
    /\ data' = 0
    /\ i' = 0
    /\ out' = EmptyBuf
    /\ waits' = 0
    /\ eintrs' = 0
    /\ lastWait' = "none"
    /\ hp' = <<>>
    /\ reads' = <<>>
    /\ wakeReads' = 0
    /\ srcReady' = (\E d \in Drivers : kq[d] + pend[d] > 0)
    /\ woken' = FALSE
    /\ UNCHANGED <<mSensors, mPollFds, pipe, srcVars, akmEnabled, ret, lastOp>>

\* a wait that never blocks
PollTimeout_Zero(nb) == 0

\* the timeout handed to poll()
PollTimeout(nb) == IF nb # 0 THEN 0 ELSE -1

\* poll() finds no descriptor ready and its timeout is -1: the thread sleeps
PollBlock ==
    /\ pc = "poll"
    /\ PollTimeout(nbEvents) = -1
    /\ \E rv \in ReventsOutcomes : \A f \in Fds : rv[f] = 0
    /\ pc' = "blocked"
    /\ UNCHANGED <<mSensors, mPollFds, pipe, srcVars, akmEnabled, count0, count,
                   nbEvents, data, i, out, ret, waits, eintrs, lastWait, hp,
                   reads, wakeReads, srcReady, woken, lastOp>>

\* poll() returns >= 0: some descriptor is ready, or the timeout is 0
PollOk ==
    /\ pc \in {"poll", "blocked"}
    /\ \E rv \in ReventsOutcomes :
          /\ PollTimeout(nbEvents) = 0 \/ \E f \in Fds : rv[f] # 0
          /\ mPollFds' = [f \in Fds |-> [mPollFds[f] EXCEPT !.revents = rv[f]]]
    /\ waits' = waits + 1
    /\ lastWait' = "ok"
    /\ pc' = "drain"
    /\ i' = 0
    /\ UNCHANGED <<mSensors, pipe, srcVars, akmEnabled, count0, count, nbEvents,
                   data, out, ret, eintrs, hp, reads, wakeReads, srcReady, woken, lastOp>>

\* a wait loop that gives up on every failure
RetryWait_Never(err) == FALSE

\* if (err == EINTR) continue; else return -err;
RetryWait(err) == err = EINTR

\* a signal interrupts the sleeping poll(), which fails with EINTR: the loop
\* calls it again
PollEintr ==
    /\ pc = "blocked"
    /\ RetryWait(EINTR)
    /\ eintrs < MaxEintr
    /\ pc' = "poll"
    /\ waits' = waits + 1
    /\ eintrs' = eintrs + 1
    /\ lastWait' = "eintr"
    /\ UNCHANGED <<mSensors, mPollFds, pipe, srcVars, akmEnabled, count0, count,
                   nbEvents, data, i, out, ret, hp, reads, wakeReads, srcReady, woken,
                   lastOp>>

\* poll() fails with an error the loop does not retry (on entry, EINTR while
\* asleep): pollEvents returns -err
PollFail(e) ==
    /\ pc = (IF e = EINTR THEN "blocked" ELSE "poll")
    /\ ~RetryWait(e)
    /\ waits' = waits + 1
    /\ lastWait' = "fail"
    /\ ret' = -e
    /\ pc' = "idle"
    /\ UNCHANGED <<mSensors, mPollFds, pipe, srcVars, akmEnabled, count0, count,
                   nbEvents, data, i, out, eintrs, hp, reads, wakeReads, srcReady, woken,
                   lastOp>>

\* a drain loop that visits the fusion source first
LoopSensor_Reversed(idx) == numSensorDrivers - 1 - idx

\* the source the drain loop looks at in iteration idx
LoopSensor(idx) == idx

\* a drain loop that does not test count
LoopCond_NoCount(c, idx) == idx < numSensorDrivers

\* the drain loop's condition
LoopCond(c, idx) == c # 0 /\ idx < numSensorDrivers

\* every drain is handed the caller's count
DrainCapacity_Initial(c0, c) == c0

\* the capacity handed to readEvents
DrainCapacity(c0, c) == c

\* count is not decremented
CountAfter_Stuck(c, nb) == c

\* count -= nb
CountAfter(c, nb) == c - nb

\* data += nb
DataAfter(at, nb) == at + nb

\* a source is drained only when poll() marked its descriptor
ShouldDrain_MarkedOnly(marked, pending) == marked

\* (mPollFds[i].revents & POLLIN) || sensor->hasPendingEvents()
ShouldDrain(marked, pending) == marked \/ pending

\* one iteration of the drain loop
DrainStep ==
    /\ pc = "drain"
    /\ LoopCond(count, i)
    /\ LET s == LoopSensor(i) IN
       IF mSensors[s] = "null"
       THEN /\ pc' = "crashed"
            /\ UNCHANGED <<mSensors, mPollFds, pipe, srcVars, akmEnabled, count0,
                           count, nbEvents, data, i, out, ret, waits, eintrs,
                           lastWait, hp, reads, wakeReads, srcReady, woken, lastOp>>
       ELSE LET marked == mPollFds[s].revents = POLLIN
                asked == IF marked THEN hp ELSE Append(hp, s)
            IN
            IF ShouldDrain(marked, hasPendingEvents(s))
            THEN \E o \in ReadOutcomes(s, DrainCapacity(count0, count)) :
                    /\ kq' = [kq EXCEPT ![s] = @ - o.pull]
                    /\ pend' = [pend EXCEPT ![s] = @ + o.pull - o.nb]
                    /\ out' = [p \in BufSlots |->
                                 IF data <= p /\ p < data + o.nb THEN s ELSE out[p]]
                    /\ count' = CountAfter(count, o.nb)
                    /\ nbEvents' = nbEvents + o.nb
                    /\ data' = DataAfter(data, o.nb)
                    /\ mPollFds' = [mPollFds EXCEPT ![s].revents = 0]
                    /\ reads' = Append(reads,
                                       [src |-> s, cap |-> DrainCapacity(count0, count),
                                        nb |-> o.nb, at |-> data])
                    /\ hp' = asked
                    /\ i' = i + 1
                    /\ UNCHANGED <<mSensors, pipe, akmEnabled, pc, count0, ret, waits,
                                   eintrs, lastWait, wakeReads, srcReady, woken, lastOp>>
            ELSE /\ hp' = asked
                 /\ i' = i + 1
                 /\ UNCHANGED <<mSensors, mPollFds, pipe, srcVars, akmEnabled, pc,
                                count0, count, nbEvents, data, out, ret, waits,
                                eintrs, lastWait, reads, wakeReads, srcReady, woken, lastOp>>

\* the wake byte is counted as a record
ReturnValue_CountsWake(nb, wakeBytes) == nb + wakeBytes

\* return nbEvents
ReturnValue(nb, wakeBytes) == nb

\* a wake read that empties the pipe
WakeBytesRead_All(marked, bytes) == IF marked THEN bytes ELSE 0

\* read(mPollFds[wake].fd, &msg, 1) when revents has POLLIN: bytes removed
WakeBytesRead(marked, bytes) == IF marked /\ bytes > 0 THEN 1 ELSE 0

\* the loop is over: read the wake byte if the pipe is marked, and return
PollFinish ==
    /\ pc = "drain"
    /\ ~LoopCond(count, i)
    /\ LET marked == mPollFds[wake].revents = POLLIN
           n == WakeBytesRead(marked, pipe)
       IN /\ pipe' = pipe - n
          /\ wakeReads' = wakeReads + n
          /\ mPollFds' = IF marked THEN [mPollFds EXCEPT ![wake].revents = 0]
                         ELSE mPollFds
          /\ ret' = ReturnValue(nbEvents, n)
    /\ pc' = "idle"
    /\ UNCHANGED <<mSensors, srcVars, akmEnabled, count0, count, nbEvents, data, i,
                   out, waits, eintrs, lastWait, hp, reads, srcReady, woken, lastOp>>

(***************************************************************************)
(* Specifications                                                          *)
(***************************************************************************)
Collect ==
    \/ \E c \in 0 .. MaxCount : PollCall(c)
    \/ PollBlock
    \/ PollOk
    \/ PollEintr
    \/ \E e \in PollErrnos : PollFail(e)
    \/ DrainStep
    \/ PollFinish

Environment == \E d \in Drivers : Arrive(d)

Control ==
    \/ \E h \in Handles, en \in EnabledValues, r \in DriverRets : Activate(h, en, r)
    \/ \E h \in Handles, ns \in NsValues, r \in DriverRets : SetDelay(h, ns, r)
    \/ \E h \in Handles, fl \in FlagValues, ns \in NsValues, t \in TimeoutValues,
          r \in DriverRets : Batch(h, fl, ns, t, r)
    \/ \E h \in Handles, r \in DriverRets : Flush(h, r)

\* the whole program: both threads and the environment
Next == Collect \/ Environment \/ Control

Spec == Init /\ [][Next]_vars

\* The control thread alone.  No control operation reads a variable that
\* pollEvents writes, so what an operation does is decided here.
SpecControl == Init /\ [][Control]_vars

\* The only way a control operation acts on pollEvents is the wake byte of a
\* successful activate(ID_M, 1)
EnableFusion == Activate(ID_M, 1, 0)

\* The collect thread in full, with the environment and the control
\* thread's one write to what pollEvents reads.
NextCollect == Collect \/ Environment \/ EnableFusion

SpecCollect == Init /\ [][NextCollect]_vars

\* poll() returns once a descriptor of the wait set is readable, and the
\* collect thread is scheduled until pollEvents returns
FairCollect ==
    /\ SpecCollect
    /\ WF_vars(PollOk)
    /\ WF_vars(DrainStep)
    /\ WF_vars(PollFinish)

\* handles of the control operations in the partly constructed context: one
\* the hub owns, the one the fusion source owns, one with no owner
PartialHandles == {"ID_A", ID_M, "ID_OTHER"}

ControlPartial ==
    \/ \E h \in PartialHandles, en \in EnabledValues, r \in DriverRets : Activate(h, en, r)
    \/ \E h \in PartialHandles, r \in DriverRets : SetDelay(h, 1, r)
    \/ \E h \in PartialHandles, r \in DriverRets : Batch(h, 0, 1, 0, r)
    \/ \E h \in PartialHandles, r \in DriverRets : Flush(h, r)

NextPartial == Collect \/ Environment \/ ControlPartial

\* The program when the construction of one source failed.
SpecPartial == InitPartial /\ [][NextPartial]_vars

\* control operations of a thread that runs beside pollEvents: one call of
\* each operation
ControlBoth ==
    \/ EnableFusion
    \/ SetDelay(ID_M, 1, 0)
    \/ Batch("ID_A", 0, 1, 0, -EINVAL)
    \/ Flush(ID_M, 0)

\* Both threads interleaved.
NextBoth == Collect \/ Environment \/ ControlBoth

SpecBoth == Init /\ [][NextBoth]_vars

(***************************************************************************)
(* Claims                                                                  *)
(***************************************************************************)
\* a pollEvents call has returned (and no other has started)
Returned == pc = "idle" /\ waits > 0

\* positions of the caller's buffer that hold a record
Written == {p \in BufSlots : out[p] # -1}

RECURSIVE SumNb(_)
\* records produced by a sequence of readEvents calls
SumNb(rs) == IF rs = <<>> THEN 0 ELSE rs[1].nb + SumNb(Tail(rs))

\* C1: in every pollEvents call with count >= 0 whose drains each return a
\* value in 0..capacity, the records written and the value returned never
\* exceed count, and each drain is handed count minus the records already
\* written in this call.
C1_CapacityRespected ==
    /\ nbEvents <= count0
    /\ Written \subseteq 0 .. (count0 - 1)
    /\ Cardinality(Written) = SumNb(reads)
    /\ Returned => ret <= count0
    /\ \A k \in 1 .. Len(reads) :
          /\ reads[k].nb \in 0 .. reads[k].cap
          /\ reads[k].cap = count0 - SumNb(SubSeq(reads, 1, k - 1))

\* both sources were drained in one call and each produced a record
C1_Witness ==
    /\ Returned
    /\ Len(reads) = 2
    /\ reads[1].nb > 0
    /\ reads[2].nb > 0
    /\ ret = count0

\* C2: within one pollEvents call every record of the hub lies at a lower
\* position of the output buffer than every record of the fusion source, and
\* the hub is drained before the fusion source, never after.
C2_HubBeforeFusion ==
    /\ \A p, q \in BufSlots :
          (out[p] = accelgyromag /\ out[q] = akm) => p < q
    /\ \A j, k \in 1 .. Len(reads) :
          (reads[j].src = accelgyromag /\ reads[k].src = akm) => j < k

\* the buffer of a returned call starts with a hub record followed by a
\* fusion record
C2_Witness ==
    /\ Returned
    /\ out[0] = accelgyromag
    /\ out[1] = akm
    /\ <<reads[1].src, reads[2].src>> = <<accelgyromag, akm>>

\* C3 as stated: a pollEvents call that was blocked with nothing ready when
\* activate(ID_M, 1) wrote the wake byte, and during which no source became
\* ready, returns 0.
C3_WokenReturnsZero ==
    (Returned /\ woken /\ ~srcReady) => ret = 0

\* C3 (amended): once the wake byte is pending, a pollEvents call waiting in
\* poll() eventually returns; if it was blocked with nothing ready when
\* activate(ID_M, 1) wrote the byte and no source became ready, it returns 0
\* with no record written unless poll() fails, and then it returns the
\* negative error code; the wake byte never adds a record: a call whose wait
\* succeeded returns exactly the records its drains produced.
C3_WakeUnblocks ==
    /\ (pc \in {"poll", "blocked"} /\ pipe > 0) ~> (pc = "idle")
    /\ [](Returned /\ woken /\ ~srcReady
            => /\ Written = {}
               /\ reads = <<>>
               /\ IF lastWait = "ok" THEN ret = 0 ELSE ret \in {-e : e \in FatalErrnos})
    /\ [](Returned /\ lastWait = "ok"
            => ret = SumNb(reads) /\ Cardinality(Written) = SumNb(reads))

\* a call blocked with nothing ready was woken by activate(ID_M, 1), read the
\* wake byte and returned 0
C3_Witness ==
    /\ Returned
    /\ woken
    /\ ~srcReady
    /\ count0 > 0
    /\ wakeReads = 1
    /\ ret = 0
    /\ lastOp.op = "activate" /\ lastOp.handle = ID_M /\ lastOp.wrote = 1

\* the handles handleToDriver has a case for, and the source that owns each
Recognized ==
    {"ID_A", "ID_L", "ID_DR", "ID_P", "ID_FU", "ID_FD", "ID_S", "ID_CA", "ID_A2", "ID_M"}
Owner(h) == IF h = "ID_M" THEN akm ELSE accelgyromag

\* a step of the control thread: nothing of the collect thread or the sources
\* changes
ControlStep ==
    /\ UNCHANGED <<mSensors, mPollFds, kq, pend, pc, count0, count, nbEvents, data,
                   i, out, ret, waits, eintrs, lastWait, hp, reads, wakeReads,
                   srcReady>>
    /\ lastOp'.op # "none"

\* C4: activate and setDelay with a handle handleToDriver does not recognise
\* return -EINVAL, call no delegate, write no wake byte and change no state.
C4_UnknownHandleRejected ==
    /\ []((lastOp.op \in {"activate", "setDelay"} /\ lastOp.handle \notin Recognized)
            => /\ lastOp.ret = -EINVAL
               /\ lastOp.calls = <<>>
               /\ lastOp.wattempts = 0
               /\ lastOp.wrote = 0)
    /\ [][(/\ ControlStep
           /\ lastOp'.op \in {"activate", "setDelay"}
           /\ lastOp'.handle \notin Recognized)
            => UNCHANGED <<pipe, akmEnabled, woken>>]_vars

\* activate with an unrecognised handle returned -EINVAL while a wake byte
\* was pending and the fusion source was enabled
C4_Witness ==
    /\ lastOp.op = "activate"
    /\ lastOp.handle = "ID_OTHER"
    /\ lastOp.arg = 1
    /\ lastOp.ret = -EINVAL
    /\ pipe = 1
    /\ akmEnabled

\* C5 as stated: activate(ID_M, enabled # 0) writes exactly one wake byte
\* when setEnable returns 0 and none when it returns an error.
C5_ExactlyOneByte ==
    (lastOp.op = "activate" /\ lastOp.handle = ID_M /\ lastOp.arg # 0)
        => /\ lastOp.ret = 0 => lastOp.wrote = 1
           /\ lastOp.ret # 0 => lastOp.wrote = 0

\* C5 (amended): activate(ID_M, enabled # 0) makes exactly one one-byte write
\* to the wake pipe when setEnable returns 0, which adds one byte unless the
\* pipe is already full (then none, and activate still returns 0), and it
\* makes no write when setEnable returns an error; also when the sensor was
\* already enabled.
C5_OneWakeWrite ==
    /\ []((lastOp.op = "activate" /\ lastOp.handle = ID_M /\ lastOp.arg # 0)
            => /\ lastOp.calls = <<Delegate(akm, "setEnable", ID_M, lastOp.arg,
                                            lastOp.ret)>>
               /\ lastOp.ret = 0 => lastOp.wattempts = 1
               /\ lastOp.ret # 0 => lastOp.wattempts = 0 /\ lastOp.wrote = 0)
    /\ [][(/\ ControlStep
           /\ lastOp'.op = "activate" /\ lastOp'.handle = ID_M /\ lastOp'.arg # 0)
            => /\ pipe' = pipe + lastOp'.wrote
               /\ lastOp'.ret = 0
                    => lastOp'.wrote = IF pipe < PipeCap THEN 1 ELSE 0]_vars

\* the fusion sensor was already enabled, and enabling it again wrote a byte
C5_Witness ==
    /\ lastOp.op = "activate"
    /\ lastOp.handle = ID_M
    /\ lastOp.arg = 1
    /\ lastOp.ret = 0
    /\ lastOp.wasOn
    /\ lastOp.wrote = 1
    /\ pipe = 2

\* C6: handleToDriver maps every recognised handle to exactly one source
\* (ID_M to akm, the nine others to accelgyromag), and activate, setDelay and
\* batch with a recognised handle call the delegate of that source and of no
\* other.
C6_OneOwner ==
    /\ \A h \in Recognized : handleToDriver(h) = Owner(h)
    /\ (lastOp.op \in {"activate", "setDelay", "batch"} /\ lastOp.handle \in Recognized)
        => /\ Len(lastOp.calls) = 1
           /\ lastOp.calls[1].drv = Owner(lastOp.handle)
           /\ lastOp.calls[1].handle = lastOp.handle
           /\ lastOp.calls[1].fn =
                 IF lastOp.op = "activate" THEN "setEnable" ELSE "setDelay"

\* batch for ID_M called the fusion source's setDelay
C6_Witness ==
    /\ lastOp.op = "batch"
    /\ lastOp.handle = ID_M
    /\ lastOp.calls[1].drv = akm
    /\ lastOp.calls[1].fn = "setDelay"

\* C7: flush with any handle calls the hub's flush with that handle, calls
\* nothing on the fusion source, writes no wake byte and returns the hub's
\* result.
C7_FlushToHub ==
    /\ []((lastOp.op = "flush")
            => /\ lastOp.calls = <<Delegate(accelgyromag, "flush", lastOp.handle, 0,
                                            lastOp.ret)>>
               /\ lastOp.wattempts = 0
               /\ lastOp.wrote = 0)
    /\ [][(ControlStep /\ lastOp'.op = "flush")
            => UNCHANGED <<pipe, akmEnabled, woken>>]_vars

\* flush(ID_M) went to the hub and returned the hub's error
C7_Witness ==
    /\ lastOp.op = "flush"
    /\ lastOp.handle = ID_M
    /\ lastOp.ret = -EINVAL
    /\ lastOp.calls[1].drv = accelgyromag

\* C8: batch(handle, flags, ns, timeout) returns what setDelay(handle, ns)
\* returns from the same state and changes the state in the same way (the
\* same delegate call with the same arguments, no wake byte), whatever flags
\* and timeout are.
C8_BatchIsSetDelay ==
    /\ []((lastOp.op = "batch")
            => \E r \in DriverRets :
                  /\ lastOp.ret = SetDelayResult(lastOp.handle, lastOp.arg, r).ret
                  /\ lastOp.calls = SetDelayResult(lastOp.handle, lastOp.arg, r).calls
                  /\ lastOp.wattempts = 0
                  /\ lastOp.wrote = 0)
    /\ [][(ControlStep /\ lastOp'.op = "batch")
            => UNCHANGED <<pipe, akmEnabled, woken>>]_vars

\* batch with a recognised handle passed ns on to the owner's setDelay
C8_Witness ==
    /\ lastOp.op = "batch"
    /\ lastOp.handle = "ID_A"
    /\ lastOp.arg = 2
    /\ lastOp.ret = 0
    /\ lastOp.calls = <<Delegate(accelgyromag, "setDelay", "ID_A", 2, 0)>>

\* C9 as stated: pollEvents with count = 0 returns 0, makes exactly one wait
\* call and no drain call.
C9_OneWaitNoDrain ==
    (Returned /\ count0 = 0)
        => /\ ret = 0
           /\ waits = 1
           /\ reads = <<>>
           /\ hp = <<>>

\* C9 (amended): pollEvents with count = 0 calls neither hasPendingEvents
\* nor readEvents on any source and writes no record; it makes one wait call
\* plus one for every wait that failed with EINTR, and returns 0 when the
\* last wait succeeded and the negative error code when it failed.
C9_ZeroCount ==
    /\ count0 = 0
        => /\ reads = <<>>
           /\ hp = <<>>
           /\ Written = {}
    /\ (Returned /\ count0 = 0)
        => /\ waits = eintrs + 1
           /\ IF lastWait = "ok" THEN ret = 0
              ELSE lastWait = "fail" /\ ret \in {-e : e \in FatalErrnos}

\* a call with count = 0 returned 0 after one wait that marked the hub
\* readable, and the hub's records are still there
C9_Witness ==
    /\ Returned
    /\ count0 = 0
    /\ ret = 0
    /\ waits = 1
    /\ mPollFds[accelgyromag].revents = POLLIN
    /\ kq[accelgyromag] = MaxRec

\* the hub's drain of this call took all the capacity there was
HubFilledBuffer ==
    /\ Len(reads) >= 1
    /\ reads[1].src = accelgyromag
    /\ reads[1].cap > 0
    /\ reads[1].nb = reads[1].cap

\* C10: when the hub's drain produces as many records as the remaining
\* capacity, pollEvents returns count, neither hasPendingEvents nor readEvents
\* is called on the fusion source in that call, and the records the hub did
\* not deliver stay in the hub.
C10_HubFillsBuffer ==
    /\ [](HubFilledBuffer
            => /\ reads[1].cap = count0
               /\ Len(reads) = 1
               /\ \A k \in 1 .. Len(hp) : hp[k] # akm
               /\ Returned => ret = count0)
    /\ [][(Len(reads') = Len(reads) + 1 /\ reads'[Len(reads')].src = accelgyromag)
            => kq'[accelgyromag] + pend'[accelgyromag]
                 = kq[accelgyromag] + pend[accelgyromag] - reads'[Len(reads')].nb]_vars

\* the hub held more records than count: the call returned count, one record
\* stays in the hub, and the fusion source, though marked readable, was not
\* looked at
C10_Witness ==
    /\ Returned
    /\ count0 = 1
    /\ ret = 1
    /\ reads = <<[src |-> accelgyromag, cap |-> 1, nb |-> 1, at |-> 0]>>
    /\ hp = <<>>
    /\ kq[accelgyromag] + pend[accelgyromag] = 1
    /\ mPollFds[akm].revents = POLLIN
    /\ kq[akm] > 0

\* the sources a sequence of readEvents calls went to
Drained(rs) == {rs[k].src : k \in 1 .. Len(rs)}

\* C11: after a successful wait, pollEvents calls readEvents on a source if
\* and only if the remaining capacity is > 0 and the source's descriptor is
\* marked readable or its hasPendingEvents is true; a source that is neither
\* is not drained, no source is drained twice, and the value returned is the
\* sum of the record counts its drains returned.
C11_DrainIffReady ==
    /\ [][(pc = "drain" /\ pc' = "drain" /\ i' = i + 1)
            => /\ (Len(reads') = Len(reads) + 1)
                    <=> (count > 0 /\ (mPollFds[i].revents = POLLIN \/ pend[i] > 0))
               /\ Len(reads') = Len(reads) + 1 => reads'[Len(reads')].src = i
               /\ Len(reads') # Len(reads) + 1 => reads' = reads]_vars
    /\ [][(pc = "drain" /\ pc' = "idle")
            => /\ reads' = reads
               /\ \A s \in Drivers : s >= i => count = 0
               /\ ret' = SumNb(reads)]_vars
    /\ [](Len(reads) = Cardinality(Drained(reads)))
    /\ []((Returned /\ lastWait = "ok") => ret = SumNb(reads))
    /\ [](pc \in {"poll", "blocked"} => reads = <<>>)

\* the hub held buffered records without being marked readable and was
\* drained; the fusion source was neither readable nor pending, was asked
\* and was left alone; the call returned the hub's record
C11_Witness ==
    /\ Returned
    /\ count0 = 2
    /\ hp = <<accelgyromag, akm>>
    /\ reads = <<[src |-> accelgyromag, cap |-> 2, nb |-> 1, at |-> 0]>>
    /\ ret = 1
    /\ wakeReads = 1

\* the sources whose construction failed
NullSources == {d \in Drivers : mSensors[d] = "null"}

\* the source an operation with this handle calls through, or -EINVAL
RoutedTo(op, h) == IF op = "flush" THEN FlushDriver(h) ELSE handleToDriver(h)

\* C12 as stated: when the construction of one source failed, the poll
\* context never crashes: the null slot is never marked readable by the wait,
\* pollEvents never calls hasPendingEvents or readEvents through it, and a
\* control operation routed to it returns an error and calls no delegate.
C12_SurvivesNullSource ==
    /\ pc # "crashed"
    /\ \A d \in NullSources :
          /\ pc = "drain" => mPollFds[d].revents = 0
          /\ d \notin Drained(reads)
          /\ \A k \in 1 .. Len(hp) : hp[k] # d
    /\ (lastOp.op # "none" /\ RoutedTo(lastOp.op, lastOp.handle) \in NullSources)
        => lastOp.ret < 0 /\ lastOp.calls = <<>>

\* pollEvents reached the null slot of the fusion source after draining the
\* hub with capacity left, and called through it
C12_NullDrainReached ==
    /\ pc = "crashed"
    /\ lastOp.op = "none"
    /\ mSensors[akm] = "null"
    /\ i = akm
    /\ Len(reads) = 1
    /\ count > 0

\* C13: for every recognised handle, activate, setDelay and batch return
\* exactly the value the owning source's delegate (setEnable or setDelay)
\* returned; a failed write of the wake byte inside activate(ID_M, 1) leaves
\* activate's return value the delegate's result.
C13_DelegateResultReturned ==
    /\ (lastOp.op \in {"activate", "setDelay", "batch"} /\ lastOp.handle \in Recognized)
        => /\ Len(lastOp.calls) = 1
           /\ lastOp.calls[1].drv = Owner(lastOp.handle)
           /\ lastOp.ret = lastOp.calls[1].ret
    /\ (lastOp.op = "activate" /\ lastOp.wattempts = 1 /\ lastOp.wrote = 0)
        => lastOp.ret = 0 /\ lastOp.calls[1].ret = 0

\* activate(ID_M, 1) found the wake pipe full: its write failed and it
\* returned the 0 of setEnable
C13_Witness ==
    /\ lastOp.op = "activate"
    /\ lastOp.handle = ID_M
    /\ lastOp.arg = 1
    /\ lastOp.wattempts = 1
    /\ lastOp.wrote = 0
    /\ lastOp.ret = 0
    /\ pipe = PipeCap

\* what a pollEvents call has done since it was entered: nothing
Untouched ==
    /\ nbEvents = 0
    /\ count = count0
    /\ data = 0
    /\ reads = <<>>
    /\ hp = <<>>
    /\ wakeReads = 0
    /\ Written = {}

\* C14: a wait that fails with EINTR is retried and never returned to the
\* caller, and the wait that follows starts from the state of the first one,
\* so a success after EINTR failures is drained like a first success; a wait
\* that fails with another error makes pollEvents return the negative error
\* code at once: no hasPendingEvents or readEvents call, no byte read from the
\* wake pipe, no record written.
C14_EintrRetried ==
    /\ [](Returned => ret # -EINTR)
    /\ [](pc \in {"poll", "blocked"} => Untouched /\ PollTimeout(nbEvents) = -1)
    /\ [][(waits' = waits + 1 /\ lastWait' = "eintr")
            => /\ pc' = "poll"
               /\ UNCHANGED <<mPollFds, pipe, kq, pend, count0, count, nbEvents,
                              data, i, out, ret, hp, reads, wakeReads>>]_vars
    /\ [][(waits' = waits + 1 /\ lastWait' = "fail")
            => /\ pc' = "idle"
               /\ ret' \in {-e : e \in PollErrnos \ {EINTR}}
               /\ Untouched'
               /\ UNCHANGED <<mPollFds, pipe, kq, pend, out>>]_vars
    /\ []((Returned /\ lastWait = "fail") => ret < 0 /\ Untouched)
    /\ []((Returned /\ lastWait = "ok") => ret >= 0 /\ waits = eintrs + 1)

\* a wait failed with EINTR, the next one succeeded, and the call returned
\* the record it drained
C14_Witness ==
    /\ Returned
    /\ eintrs = MaxEintr
    /\ waits = MaxEintr + 1
    /\ lastWait = "ok"
    /\ ret = 1
    /\ Len(reads) = 1

\* poll() has nothing to report: no source descriptor is readable and the
\* wake pipe is empty
NothingReadable == pipe = 0 /\ \A d \in Drivers : kq[d] = 0

\* C15 as stated: pollEvents returns either a positive count, because a
\* record was written, or a negative code, because the wait failed fatally.
C15_TwoExitPaths ==
    Returned => \/ ret > 0 /\ Written # {}
                \/ ret < 0 /\ lastWait = "fail"

\* C15 (amended): pollEvents returns either after a successful wait, with the
\* number of records written, which is zero when the drains produced nothing
\* (a wake byte only, count = 0, sources that returned no record), or after a
\* fatal failure of the wait, with the negative error code and nothing
\* written; while no source descriptor is readable and the wake pipe is empty
\* it leaves the wait only through such a failure.
C15_ExitPaths ==
    /\ [](Returned
            => \/ /\ lastWait = "ok"
                  /\ ret >= 0
                  /\ ret = Cardinality(Written)
               \/ /\ lastWait = "fail"
                  /\ ret \in {-e : e \in PollErrnos \ {EINTR}}
                  /\ Written = {})
    /\ [][(pc \in {"poll", "blocked"} /\ NothingReadable /\ pc' \notin {"poll", "blocked"})
            => /\ pc' = "idle"
               /\ lastWait' = "fail"
               /\ ret' < 0]_vars

\* a call with capacity returned 0 after a successful wait: the wake byte
\* was all there was
C15_Witness ==
    /\ Returned
    /\ lastWait = "ok"
    /\ count0 = MaxCount
    /\ ret = 0
    /\ hp = <<accelgyromag, akm>>
    /\ reads = <<>>
    /\ wakeReads = 1

\* C16 as stated: within one pollEvents call the wait has an infinite timeout
\* exactly while no record has been collected and a zero timeout afterwards,
\* and a call that has collected a record and has capacity left waits again
\* (with the zero timeout) before it returns, so that one wake-up takes
\* everything available.
C16_ZeroTimeoutDrainPass ==
    /\ pc \in {"poll", "blocked"}
        => (PollTimeout(nbEvents) = -1 <=> nbEvents = 0)
    /\ (Returned /\ lastWait = "ok" /\ ret > 0 /\ count > 0)
        => waits > eintrs + 1

\* the hub was marked readable with two records, its drain delivered one
\* with capacity for two, and the call returned after its only wait: the
\* other record stays buffered in the hub
C16_SinglePassLeftover ==
    /\ Returned
    /\ count0 = 2
    /\ waits = 1
    /\ reads = <<[src |-> accelgyromag, cap |-> 2, nb |-> 1, at |-> 0]>>
    /\ hp = <<akm>>
    /\ ret = 1
    /\ pend[accelgyromag] = 1

\* C17: under any interleaving of the control thread with the collect
\* thread, activate, setDelay, batch and flush leave the wait set (fd and
\* events of mPollFds) and every readiness mark (revents) unchanged; only a
\* step of pollEvents writes a readiness mark; and the one thing a control
\* operation changes for the collect thread is the wake pipe, by at most one
\* byte.
C17_ControlLeavesWaitSet ==
    /\ [](\A f \in Fds :
            /\ mPollFds[f].fd = PollFdsAfterCtor(mSensors)[f].fd
            /\ mPollFds[f].events = POLLIN)
    /\ [][(lastOp' # lastOp \/ pipe' > pipe)
            => /\ UNCHANGED <<mSensors, mPollFds, kq, pend, pc, count0, count,
                              nbEvents, data, i, out, ret, waits, eintrs,
                              lastWait, hp, reads, wakeReads>>
               /\ pipe' \in {pipe, pipe + 1}
               /\ pipe' = pipe + 1
                    => lastOp'.op = "activate" /\ lastOp'.wrote = 1]_vars
    /\ [][(mPollFds' # mPollFds)
            => /\ pc \in {"poll", "blocked", "drain"}
               /\ <<pc', i'>> # <<pc, i>>
               /\ lastOp' = lastOp
               /\ pipe' <= pipe]_vars

\* activate woke the pollEvents call that was blocked, batch ran after it
\* within the same call, and the marks poll() stored are in place for the
\* drain loop
C17_Witness ==
    /\ pc = "drain"
    /\ i = 0
    /\ woken
    /\ lastOp.op = "batch"
    /\ pipe = 1
    /\ mPollFds[wake].revents = POLLIN
    /\ mPollFds[accelgyromag].revents = POLLIN

\* a step in which activate(ID_M, enabled # 0) returned 0
FusionEnabledStep ==
    /\ lastOp' # lastOp \/ pipe' > pipe
    /\ lastOp'.op = "activate"
    /\ lastOp'.handle = ID_M
    /\ lastOp'.arg # 0
    /\ lastOp'.ret = 0

\* the step in which pollEvents returns after a successful wait
ReturnStep == pc = "drain" /\ pc' = "idle"

\* C18 as stated: a pollEvents call whose wait succeeded removes one byte
\* from the wake pipe when the wake slot is marked readable and none
\* otherwise, and every successful activate(ID_M, 1) adds a byte, so that k
\* of them in a row wake the next k pollEvents calls.
C18_EveryEnableWakesOneCall ==
    /\ [][ReturnStep
            => pipe' = pipe - (IF mPollFds[wake].revents = POLLIN THEN 1 ELSE 0)]_vars
    /\ [][FusionEnabledStep => pipe' = pipe + 1]_vars

\* C18 (amended): a pollEvents call whose wait succeeded removes exactly one
\* byte from the wake pipe when the wake slot is marked readable and none
\* otherwise, whatever the remaining capacity; the bytes pending change only
\* by +1 at a wake write that succeeded and by -1 at such a return, so they
\* equal the successful writes minus the calls that saw the pipe readable;
\* the wait marks the wake slot exactly when a byte is pending, so m pending
\* bytes make the next m calls whose wait succeeds leave the wait, one byte
\* each; a successful activate(ID_M, 1) adds a byte only while the pipe is
\* not full.
C18_WakeByteAccounting ==
    /\ [][ReturnStep
            => /\ pipe' = pipe - (IF mPollFds[wake].revents = POLLIN THEN 1 ELSE 0)
               /\ wakeReads' = pipe - pipe'
               /\ mPollFds'[wake].revents = 0]_vars
    /\ [][(pipe' # pipe)
            => \/ /\ pipe' = pipe + 1
                  /\ FusionEnabledStep
                  /\ lastOp'.wrote = 1
                  /\ pc' = pc
               \/ /\ pipe' = pipe - 1
                  /\ ReturnStep
                  /\ mPollFds[wake].revents = POLLIN]_vars
    /\ [][(pc \in {"poll", "blocked"} /\ pc' = "drain")
            => (mPollFds'[wake].revents = POLLIN <=> pipe > 0)]_vars
    /\ [](pc = "drain" /\ mPollFds[wake].revents = POLLIN => pipe > 0)
    /\ [][FusionEnabledStep => pipe' = Min(pipe + 1, PipeCap)]_vars

\* two wake bytes were pending and no source had a record: the call returned
\* 0 and took one byte, the other is left for the next call
C18_Witness ==
    /\ Returned
    /\ lastWait = "ok"
    /\ count0 > 0
    /\ ~srcReady
    /\ ret = 0
    /\ wakeReads = 1
    /\ pipe = 1

\* pollEvents has just been entered with count > 0 while a source holds
\* buffered records
CalledWithPending ==
    /\ pc = "poll"
    /\ waits = 0
    /\ count0 > 0
    /\ \E d \in Drivers : hasPendingEvents(d)

\* C19 as stated: a pollEvents call entered with count > 0 while a source
\* holds buffered records eventually returns at least one record (or the
\* error of a failed wait), whether or not a descriptor becomes readable or a
\* wake byte is written afterwards.
C19_PendingDelivered ==
    CalledWithPending
        ~> (Returned /\ (ret > 0 \/ lastWait = "fail"))

\* the call sleeps in poll() although the hub holds a buffered record, left
\* by an earlier call that had room for one record only
C19_BlockedWithPending ==
    /\ pc = "blocked"
    /\ count0 > 0
    /\ waits = 0
    /\ pend[accelgyromag] = 1
    /\ NothingReadable
    /\ ret = 1

\* the operation recorded in op is an enable of ID_M whose setEnable
\* returned 0
SuccessfulEnable(op) ==
    /\ op.op = "activate"
    /\ op.handle = ID_M
    /\ op.arg # 0
    /\ op.ret = 0

\* C20: no control operation other than a successful enable of ID_M writes
\* to the wake pipe: activate(h, 1) for a hub handle, activate(h, 0) for any
\* handle, a failed activate(ID_M, 1), setDelay, batch and flush attempt no
\* write and leave the bytes pending as they are, so what poll() finds
\* readable is the same after the operation as before it and a waiting
\* pollEvents is not unblocked.
C20_OnlyEnableFusionWrites ==
    /\ []((lastOp.op # "none" /\ ~SuccessfulEnable(lastOp))
            => lastOp.wattempts = 0 /\ lastOp.wrote = 0)
    /\ [][(ControlStep /\ ~SuccessfulEnable(lastOp'))
            => /\ pipe' = pipe
               /\ woken' = woken
               /\ \A f \in Fds : Readable(f)' = Readable(f)]_vars
    /\ [][(pipe' # pipe) => SuccessfulEnable(lastOp')]_vars

\* the fusion sensor was enabled and a wake byte was pending; disabling it
\* wrote nothing
C20_Witness ==
    /\ lastOp.op = "activate"
    /\ lastOp.handle = ID_M
    /\ lastOp.arg = 0
    /\ lastOp.ret = 0
    /\ lastOp.wasOn
    /\ ~akmEnabled
    /\ lastOp.wattempts = 0
    /\ pipe = 1

====
